---- MODULE Spec2Model ----
(***************************************************************************)
(* A model of the Arrow bridge of lancedb (rust/lancedb/src/arrow.rs and   *)
(* rust/lancedb/src/polars_arrow_convertors.rs): the conversion of         *)
(* arrow-rs record batches into a Polars DataFrame (into_polars), the      *)
(* reader of arrow-rs batches over a Polars DataFrame                      *)
(* (PolarsDataFrameRecordBatchReader), the array conversions through the   *)
(* C data interface, and the field and batch conversions.                  *)
(*                                                                         *)
(* The module holds four state machines over disjoint variables:           *)
(*   Spec        into_polars over a SendableRecordBatchStream              *)
(*   SpecReader  PolarsDataFrameRecordBatchReader::new and next            *)
(*   SpecBridge  one array conversion, statement by statement, with the    *)
(*               ownership of the exported C array                         *)
(*   SpecConv    the field, schema and batch conversions as functions of   *)
(*               inputs drawn from bounded sets                            *)
(***************************************************************************)
EXTENDS Integers, Sequences, FiniteSets, TLC

VARIABLES
    \* into_polars
    schemaA,    \* the stream's schema (SimpleRecordBatchStream.schema)
    produced,   \* the items the inner stream has yielded so far, in order
    acc_df,     \* the accumulated DataFrame (acc_df)
    apc,        \* position of into_polars: "init", "pull", "done"
    result,     \* what into_polars ended with
    \* PolarsDataFrameRecordBatchReader
    df,         \* the DataFrame handed to new
    reader,     \* the reader: constructed, chunks (the rest), arrow_schema
    rets,       \* what the calls of next returned, in order
    \* one array conversion
    br,         \* the call and the ownership of its C array
    \* pure conversions
    cin,        \* the inputs
    cout        \* the output of the conversion applied

accVars == <<schemaA, produced, acc_df, apc, result>>
readerVars == <<df, reader, rets>>
bridgeVars == <<br>>
convVars == <<cin, cout>>
vars == <<schemaA, produced, acc_df, apc, result, df, reader, rets, br, cin, cout>>

-----------------------------------------------------------------------------
(* Bounds of the model *)

MaxCols == 2
MaxRows == 2
MaxBatches == 3
MaxChunks == 2
MaxExtraNext == 2
MaxHandles == 2

-----------------------------------------------------------------------------
(* Sequences *)

RECURSIVE SumSeq(_)
SumSeq(s) == IF s = <<>> THEN 0 ELSE Head(s) + SumSeq(Tail(s))

RECURSIVE Flatten(_)
Flatten(ss) == IF ss = <<>> THEN <<>> ELSE Head(ss) \o Flatten(Tail(ss))

SeqsUpTo(S, n) == UNION {[1..k -> S] : k \in 0..n}

Min(S) == CHOOSE x \in S : \A y \in S : x <= y

-----------------------------------------------------------------------------
(* Logical types.  arrow-rs and polars-arrow name the Arrow types alike;   *)
(* a Polars DataFrame has its own dtypes ("String" for a string column).   *)
(* Utf8View stands for the types one side cannot take from the other: the  *)
(* string view types arrow-rs does not convert.                            *)

ArrowTypes == {"Int32", "LargeUtf8", "Utf8View"}
SupportedTypes == {"Int32", "LargeUtf8"}
PolarsDTypes == {"Int32", "String"}

POLARS_ARROW_FLAVOR == FALSE
IS_ARRAY_NULLABLE == TRUE

\* A C schema (ArrowSchema of the C data interface) is [format, name, nullable].

\* arrow::ffi::FFI_ArrowSchema::try_from(&DataType): the C schema of an arrow-rs
\* type, or an error for a type arrow-rs does not export.  It is made from the
\* type alone: it carries no field name and no nullable flag.
FFI_ArrowSchema_try_from(t) ==
    CASE t = "Int32" -> [kind |-> "ok", format |-> "i", name |-> "", nullable |-> FALSE]
      [] t = "LargeUtf8" -> [kind |-> "ok", format |-> "U", name |-> "", nullable |-> FALSE]
      [] OTHER -> [kind |-> "err", format |-> "", name |-> "", nullable |-> FALSE]

\* polars_arrow::ffi::export_field_to_c(&field): the C schema of a polars-arrow
\* field, with the field's name and nullable flag.
export_field_to_c(f) ==
    [format |-> CASE f.type = "Int32" -> "i"
                  [] f.type = "LargeUtf8" -> "U"
                  [] OTHER -> "vu",
     name |-> f.name, nullable |-> f.nullable]

\* polars_arrow::ffi::import_field_from_c, and arrow_schema::DataType::try_from
\* (&FFI_ArrowSchema): the type a C format string stands for.  Both read "i" and
\* "U"; arrow-rs does not read the string view format, and polars-arrow is only
\* handed the formats arrow-rs exports.
import_format(f) ==
    CASE f = "i" -> [kind |-> "ok", type |-> "Int32"]
      [] f = "U" -> [kind |-> "ok", type |-> "LargeUtf8"]
      [] OTHER -> [kind |-> "err", type |-> ""]

\* polars DataType::to_arrow(flavor)
to_arrow(dtype, flavor) ==
    IF dtype = "Int32" THEN "Int32"
    ELSE IF flavor THEN "Utf8View" ELSE "LargeUtf8"

\* polars DataType::from(&ArrowDataType)
DataTypeFromArrow(t) ==
    CASE t = "Int32" -> "Int32"
      [] OTHER -> "String"

\* The number of buffers of an array of a type (validity, values/offsets, data).
NBuffers(t) == IF t = "Int32" THEN 2 ELSE 3

\* An import of a C array under a target type is rejected when the layout of the
\* target type needs a buffer the exported array does not have.
ImportRejects(actual, target) == NBuffers(target) > NBuffers(actual)

\* The values an accepted import reads: those exported when the target type is
\* the array's own, and otherwise the array's buffers read under the target
\* type's layout, which are other values.
ImportedValues(values, actual, target) ==
    IF actual = target THEN values ELSE [i \in 1..Len(values) |-> 0 - values[i]]

NameOf(i) == <<"a", "b", "c", "d", "e", "f">>[i]

-----------------------------------------------------------------------------
(* Polars DataFrames: a sequence of Series [name, dtype, chunks], chunks a *)
(* sequence of arrays (sequences of values).                               *)

SeriesLen(s) == SumSeq([i \in 1..Len(s.chunks) |-> Len(s.chunks[i])])

\* DataFrame::height: the length of the first column, 0 without columns
Height(f) == IF f = <<>> THEN 0 ELSE SeriesLen(f[1])

\* DataFrame::n_chunks: the chunks of the first column, 0 without columns
NChunks(f) == IF f = <<>> THEN 0 ELSE Len(f[1].chunks)

\* DataFrame::from(&Schema): one empty chunk per field
DataFrameFromSchema(ps) ==
    [i \in 1..Len(ps) |-> [name |-> ps[i].name, dtype |-> ps[i].dtype, chunks |-> << <<>> >>]]

\* Series::from_arrow(name, array): the dtype is the array's
Series_from_arrow(name, array) ==
    [name |-> name, dtype |-> DataTypeFromArrow(array.type), chunks |-> <<array.values>>]

NonEmptyChunks(cs) == SelectSeq(cs, LAMBDA c : Len(c) > 0)

\* Series::append with the arguments swapped: the new chunks come first.
append_prepending(l, r) ==
    [l EXCEPT !.chunks = IF Len(l.chunks) = 1 /\ SeriesLen(l) = 0
                         THEN r.chunks
                         ELSE NonEmptyChunks(r.chunks) \o l.chunks]

\* Series::append: an empty single chunk is replaced, otherwise the other
\* Series' non-empty chunks are pushed after the Series' own.
append(l, r) ==
    [l EXCEPT !.chunks = IF Len(l.chunks) = 1 /\ SeriesLen(l) = 0
                         THEN r.chunks
                         ELSE l.chunks \o NonEmptyChunks(r.chunks)]

\* DataFrame::vstack appending to the first column only.
vstack_first_column_only(left, right) ==
    IF Len(left) # Len(right)
    THEN IF Len(left) = 0
         THEN [kind |-> "ok", err |-> "", df |-> right]
         ELSE [kind |-> "err", err |-> "ShapeMismatch", df |-> <<>>]
    ELSE IF \E i \in 1..Len(left) : left[i].name # right[i].name
    THEN [kind |-> "err", err |-> "ShapeMismatch", df |-> <<>>]
    ELSE IF \E i \in 1..Len(left) : left[i].dtype # right[i].dtype
    THEN [kind |-> "err", err |-> "SchemaMismatch", df |-> <<>>]
    ELSE [kind |-> "ok", err |-> "",
          df |-> [i \in 1..Len(left) |->
                     IF i = 1 THEN append(left[i], right[i]) ELSE left[i]]]

\* DataFrame::vstack
vstack(left, right) ==
    IF Len(left) # Len(right)
    THEN IF Len(left) = 0
         THEN [kind |-> "ok", err |-> "", df |-> right]
         ELSE [kind |-> "err", err |-> "ShapeMismatch", df |-> <<>>]
    ELSE IF \E i \in 1..Len(left) : left[i].name # right[i].name
    THEN [kind |-> "err", err |-> "ShapeMismatch", df |-> <<>>]
    ELSE IF \E i \in 1..Len(left) : left[i].dtype # right[i].dtype
    THEN [kind |-> "err", err |-> "SchemaMismatch", df |-> <<>>]
    ELSE [kind |-> "ok", err |-> "",
          df |-> [i \in 1..Len(left) |-> append(left[i], right[i])]]

-----------------------------------------------------------------------------
(* arrow.rs: the export path, a stream of arrow-rs batches to a DataFrame  *)

\* convert_arrow_schema_to_polars_df_schema: both conversions are unwrapped
convert_arrow_schema_to_polars_df_schema(arrow_schema) ==
    IF \E i \in 1..Len(arrow_schema) :
           \/ FFI_ArrowSchema_try_from(arrow_schema[i].type).kind = "err"
           \/ import_format(FFI_ArrowSchema_try_from(arrow_schema[i].type).format).kind = "err"
    THEN [kind |-> "panic", schema |-> <<>>]
    ELSE [kind |-> "ok",
          schema |-> [i \in 1..Len(arrow_schema) |->
              [name |-> arrow_schema[i].name,
               dtype |-> DataTypeFromArrow(
                   import_format(FFI_ArrowSchema_try_from(arrow_schema[i].type).format).type)]]]

\* convert_arrow_rs_array_to_polars_array: the import is unwrapped
convert_arrow_rs_array_to_polars_array(arrow_rs_array, polars_arrow_dtype) ==
    IF ImportRejects(arrow_rs_array.type, polars_arrow_dtype)
    THEN [kind |-> "panic", array |-> [type |-> "", values |-> <<>>]]
    ELSE [kind |-> "ok",
          array |-> [type |-> polars_arrow_dtype,
                     values |-> ImportedValues(arrow_rs_array.values, arrow_rs_array.type,
                                               polars_arrow_dtype)]]

\* convert_record_batch_to_polars_df: column by column, the schema's field at
\* the column's index, then the array conversion; nconv counts the array
\* conversions attempted.
convert_record_batch_to_polars_df(record_batch, polars_schema) ==
    LET n == Len(record_batch.columns)
        oob(i) == i > Len(polars_schema)
        conv(i) == convert_arrow_rs_array_to_polars_array(
                       record_batch.columns[i],
                       to_arrow(polars_schema[i].dtype, POLARS_ARROW_FLAVOR))
        bad == {i \in 1..n : oob(i) \/ conv(i).kind = "panic"}
    IN  IF bad = {}
        THEN [kind |-> "ok", err |-> "", nconv |-> n,
              df |-> [i \in 1..n |-> Series_from_arrow(polars_schema[i].name, conv(i).array)]]
        ELSE IF oob(Min(bad))
        THEN [kind |-> "err", err |-> "OutOfBounds", nconv |-> Min(bad) - 1, df |-> <<>>]
        ELSE [kind |-> "panic", err |-> "ImportRejected", nconv |-> Min(bad), df |-> <<>>]

\* SimpleRecordBatchStream::poll_next: the inner stream's item, as it is
poll_next(item) == item

\* SimpleRecordBatchStream::schema
schema(s) == s

(* The batches an inner stream may yield at position p under a schema: the *)
(* schema's own columns, or one deviation from them.                       *)
Variants == {"conform", "rename", "retype", "drop", "extra"}

OtherType(t) == IF t = "Int32" THEN "LargeUtf8" ELSE "Int32"

BatchFields(s, v) ==
    CASE v = "rename" -> [s EXCEPT ![1].name = "z"]
      [] v = "retype" -> [s EXCEPT ![1].type = OtherType(s[1].type)]
      [] v = "drop" -> SubSeq(s, 1, Len(s) - 1)
      [] v = "extra" -> Append(s, [name |-> NameOf(Len(s) + 1), type |-> "Int32"])
      [] OTHER -> s

MakeBatch(s, v, n, p) ==
    LET fs == BatchFields(s, v)
    IN  [kind |-> "batch", err |-> "", variant |-> v,
         fields |-> fs,
         columns |-> [c \in 1..Len(fs) |->
                         [type |-> fs[c].type, values |-> [r \in 1..n |-> 100 * p + 10 * c + r]]],
         num_rows |-> n]

ErrItem == [kind |-> "err", err |-> "StreamError", variant |-> "", fields |-> <<>>,
            columns |-> <<>>, num_rows |-> 0]

StreamSchemas ==
    {[i \in 1..Len(ts) |-> [name |-> NameOf(i), type |-> ts[i]]] : ts \in SeqsUpTo(ArrowTypes, MaxCols)}

NoResult == [kind |-> "none", err |-> "", df |-> <<>>]

InitAcc ==
    /\ schemaA \in StreamSchemas
    /\ produced = <<>>
    /\ acc_df = <<>>
    /\ apc = "init"
    /\ result = NoResult

\* the schema of the frame being accumulated (polars_schema)
PolarsSchema == convert_arrow_schema_to_polars_df_schema(schema(schemaA)).schema

\* into_polars up to the loop: the schema, converted once, and the empty frame
IntoPolarsBegin ==
    /\ apc = "init"
    /\ LET ps == convert_arrow_schema_to_polars_df_schema(schema(schemaA))
       IN  IF ps.kind = "panic"
           THEN /\ apc' = "done"
                /\ result' = [kind |-> "panic", err |-> "UnsupportedType", df |-> <<>>]
                /\ acc_df' = acc_df
           ELSE /\ apc' = "pull"
                /\ acc_df' = DataFrameFromSchema(ps.schema)
                /\ result' = result
    /\ UNCHANGED <<schemaA, produced>>
    /\ UNCHANGED <<readerVars, bridgeVars, convVars>>

\* one turn of the loop on a batch: convert it, append it
IntoPolarsBatch ==
    /\ apc = "pull"
    /\ Len(produced) < MaxBatches
    /\ \E v \in Variants, n \in 0..MaxRows :
        /\ v \in {"rename", "retype", "drop"} => Len(schemaA) >= 1
        /\ LET item == poll_next(MakeBatch(schemaA, v, n, Len(produced) + 1))
               new_df == convert_record_batch_to_polars_df(item, PolarsSchema)
               stacked == vstack(acc_df, new_df.df)
           IN  /\ produced' = Append(produced, item)
               /\ IF new_df.kind # "ok"
                  THEN /\ apc' = "done"
                       /\ result' = [kind |-> new_df.kind, err |-> new_df.err, df |-> <<>>]
                       /\ acc_df' = acc_df
                  ELSE IF stacked.kind # "ok"
                  THEN /\ apc' = "done"
                       /\ result' = [kind |-> "err", err |-> stacked.err, df |-> <<>>]
                       /\ acc_df' = acc_df
                  ELSE /\ apc' = "pull"
                       /\ acc_df' = stacked.df
                       /\ result' = result
    /\ UNCHANGED schemaA
    /\ UNCHANGED <<readerVars, bridgeVars, convVars>>

\* one turn of the loop on an error of the stream: returned by `?`
IntoPolarsErr ==
    /\ apc = "pull"
    /\ Len(produced) < MaxBatches
    /\ LET item == poll_next(ErrItem)
       IN  /\ produced' = Append(produced, item)
           /\ result' = [kind |-> "err", err |-> item.err, df |-> <<>>]
    /\ apc' = "done"
    /\ UNCHANGED <<schemaA, acc_df>>
    /\ UNCHANGED <<readerVars, bridgeVars, convVars>>

\* the stream ends: the accumulated frame is returned
IntoPolarsEnd ==
    /\ apc = "pull"
    /\ apc' = "done"
    /\ result' = [kind |-> "ok", err |-> "", df |-> acc_df]
    /\ UNCHANGED <<schemaA, produced, acc_df>>
    /\ UNCHANGED <<readerVars, bridgeVars, convVars>>

NextAcc ==
    \/ IntoPolarsBegin
    \/ IntoPolarsBatch
    \/ IntoPolarsErr
    \/ IntoPolarsEnd

-----------------------------------------------------------------------------
(* arrow.rs: the import path, a DataFrame read as arrow-rs batches         *)

\* Series::rechunk: one chunk holding all rows
rechunk(s) == [s EXCEPT !.chunks = <<Flatten(s.chunks)>>]

ChunkLengths(s) == [i \in 1..Len(s.chunks) |-> Len(s.chunks[i])]

\* DataFrame::should_rechunk: the columns' chunk lengths differ
should_rechunk(f) == \E i \in 1..Len(f) : ChunkLengths(f[i]) # ChunkLengths(f[1])

\* DataFrame::align_chunks
align_chunks(f) == IF should_rechunk(f) THEN [i \in 1..Len(f) |-> rechunk(f[i])] ELSE f

\* DataFrame::iter_chunks: one ArrowChunk per chunk of the first column, the
\* arrays of the columns at that chunk index
iter_chunks(f, flavor) ==
    [k \in 1..NChunks(f) |->
        [c \in 1..Len(f) |-> [type |-> to_arrow(f[c].dtype, flavor), values |-> f[c].chunks[k]]]]

\* convert_polars_array_to_arrow_rs_array: the import is unwrapped
convert_polars_array_to_arrow_rs_array(polars_array, arrow_datatype) ==
    IF ImportRejects(polars_array.type, arrow_datatype)
    THEN [kind |-> "panic", array |-> [type |-> "", values |-> <<>>]]
    ELSE [kind |-> "ok",
          array |-> [type |-> arrow_datatype,
                     values |-> ImportedValues(polars_array.values, polars_array.type,
                                               arrow_datatype)]]

\* arrow_array::RecordBatch::try_new: as many columns as fields, of the
\* fields' types, all of one length
RecordBatch_try_new(fields, columns) ==
    IF \/ Len(columns) # Len(fields)
       \/ Len(columns) = 0
       \/ \E i \in 1..Len(columns) : columns[i].type # fields[i].type
       \/ \E i \in 1..Len(columns) : Len(columns[i].values) # Len(columns[1].values)
    THEN [kind |-> "err", fields |-> <<>>, columns |-> <<>>, num_rows |-> 0]
    ELSE [kind |-> "batch", fields |-> fields, columns |-> columns,
          num_rows |-> Len(columns[1].values)]

\* PolarsDataFrameRecordBatchReader::new: the fields of the arrow schema, each
\* type through the C schema (unwrapped), every field nullable
ReaderFields(f) ==
    [i \in 1..Len(f) |->
        LET polars_field == [name |-> f[i].name,
                             type |-> to_arrow(f[i].dtype, POLARS_ARROW_FLAVOR),
                             nullable |-> TRUE]
            t == import_format(export_field_to_c(polars_field).format)
        IN  [kind |-> t.kind, name |-> f[i].name, type |-> t.type, nullable |-> TRUE]]

PolarsDataFrameRecordBatchReader_new(f) ==
    LET aligned == align_chunks(f)
        fs == ReaderFields(aligned)
    IN  IF \E i \in 1..Len(fs) : fs[i].kind = "err"
        THEN [state |-> "panic", chunks |-> <<>>, arrow_schema |-> <<>>]
        ELSE [state |-> "ready",
              chunks |-> iter_chunks(aligned, POLARS_ARROW_FLAVOR),
              arrow_schema |-> [i \in 1..Len(fs) |->
                  [name |-> fs[i].name, type |-> fs[i].type, nullable |-> fs[i].nullable]]]

NoneRet == [kind |-> "None", fields |-> <<>>, columns |-> <<>>, num_rows |-> 0]
PanicRet == [kind |-> "panic", fields |-> <<>>, columns |-> <<>>, num_rows |-> 0]

\* next that hands out the last chunk left instead of the first
next_from_back(r) ==
    IF r.chunks = <<>>
    THEN [ret |-> NoneRet, reader |-> r]
    ELSE LET chunk == r.chunks[Len(r.chunks)]
             n == IF Len(chunk) < Len(r.arrow_schema) THEN Len(chunk) ELSE Len(r.arrow_schema)
             conv(i) == convert_polars_array_to_arrow_rs_array(chunk[i], r.arrow_schema[i].type)
         IN  [ret |-> IF \E i \in 1..n : conv(i).kind = "panic"
                      THEN PanicRet
                      ELSE RecordBatch_try_new(r.arrow_schema, [i \in 1..n |-> conv(i).array]),
              reader |-> [r EXCEPT !.chunks = SubSeq(r.chunks, 1, Len(r.chunks) - 1)]]

\* Iterator::next of the reader: the next chunk, its arrays zipped with the
\* schema's fields and converted, a RecordBatch of them
next(r) ==
    IF r.chunks = <<>>
    THEN [ret |-> NoneRet, reader |-> r]
    ELSE LET chunk == Head(r.chunks)
             n == IF Len(chunk) < Len(r.arrow_schema) THEN Len(chunk) ELSE Len(r.arrow_schema)
             conv(i) == convert_polars_array_to_arrow_rs_array(chunk[i], r.arrow_schema[i].type)
         IN  [ret |-> IF \E i \in 1..n : conv(i).kind = "panic"
                      THEN PanicRet
                      ELSE RecordBatch_try_new(r.arrow_schema, [i \in 1..n |-> conv(i).array]),
              reader |-> [r EXCEPT !.chunks = Tail(r.chunks)]]

(* The frames handed to new: up to MaxCols Series of equal length, each in *)
(* up to MaxChunks chunks of 1..MaxRows rows, or in one empty chunk.       *)
RECURSIVE MakeChunks(_, _, _)
MakeChunks(lens, start, c) ==
    IF lens = <<>> THEN <<>>
    ELSE <<[r \in 1..Head(lens) |-> 100 * c + start + r]>>
         \o MakeChunks(Tail(lens), start + Head(lens), c)

ChunkLists == {<<0>>} \cup (SeqsUpTo(1..MaxRows, MaxChunks) \ {<<>>})

FramesOf(ts) ==
    {[c \in 1..Len(ts) |->
        [name |-> NameOf(c), dtype |-> ts[c], chunks |-> MakeChunks(ls[c], 0, c)]] :
     ls \in {l \in [1..Len(ts) -> ChunkLists] :
                \A i \in 1..Len(ts) : SumSeq(l[i]) = SumSeq(l[1])}}

FramesB == UNION {FramesOf(ts) : ts \in SeqsUpTo(PolarsDTypes, MaxCols)}

NoReader == [state |-> "none", chunks |-> <<>>, arrow_schema |-> <<>>]

InitReader ==
    /\ df \in FramesB
    /\ reader = NoReader
    /\ rets = <<>>

ReaderNew ==
    /\ reader.state = "none"
    /\ reader' = PolarsDataFrameRecordBatchReader_new(df)
    /\ UNCHANGED <<df, rets>>
    /\ UNCHANGED <<accVars, bridgeVars, convVars>>

NoneCount == Cardinality({i \in 1..Len(rets) : rets[i].kind = "None"})

ReaderNext ==
    /\ reader.state = "ready"
    /\ NoneCount < MaxExtraNext
    /\ (rets # <<>> => rets[Len(rets)].kind # "panic")
    /\ reader' = next(reader).reader
    /\ rets' = Append(rets, next(reader).ret)
    /\ UNCHANGED df
    /\ UNCHANGED <<accVars, bridgeVars, convVars>>

NextReader ==
    \/ ReaderNew
    \/ ReaderNext

-----------------------------------------------------------------------------
(* One array conversion through the C data interface, statement by         *)
(* statement: export, transmute, import.  The exported C array carries a   *)
(* release callback; every live value of the C array type runs it when it  *)
(* is dropped.  br holds                                                   *)
(*   fn             the conversion called                                  *)
(*   pc             "entered", "exported", "transmuted", "returned"        *)
(*   array, target  the source array's type and the type asked for         *)
(*   callerHandles  handles to the source array the caller holds           *)
(*   fnHandle       the handle the function owns (a by-value parameter)    *)
(*   bridgeOwned    live C arrays owned by locals of the conversion        *)
(*   destOwned      live C arrays owned by the imported array              *)
(*   released       calls of the release callback, releasedBy their callers*)
(*   ret            "none", "ok", "err", "panic"                           *)

BridgeFns == {"convert_polars_arrow_array_to_arrow_rs_array",
              "convert_arrow_rs_array_to_polars_arrow_array",
              "convert_polars_array_to_arrow_rs_array",
              "convert_arrow_rs_array_to_polars_array"}

\* the source array is a Box<dyn Array> passed by value
TakesBox(fn) == fn \in {"convert_polars_arrow_array_to_arrow_rs_array",
                        "convert_polars_array_to_arrow_rs_array"}

\* the source array is an Arc<dyn Array> passed by value
TakesArc(fn) == fn = "convert_arrow_rs_array_to_polars_arrow_array"

PassedByValue(fn) == TakesBox(fn) \/ TakesArc(fn)

\* the import's result is unwrapped (arrow.rs) instead of returned (`?`)
Unwraps(fn) == fn \in {"convert_polars_array_to_arrow_rs_array",
                       "convert_arrow_rs_array_to_polars_array"}

\* polars_arrow::ffi::export_array_to_c(polars_array) takes the Box into the
\* C array; arrow::ffi::FFI_ArrowArray::new(&array.to_data()) takes a clone of
\* the data and leaves the handle where it is.
export_array(b) ==
    [b EXCEPT !.pc = "exported",
              !.bridgeOwned = 1,
              !.fnHandle = IF TakesBox(b.fn) THEN 0 ELSE b.fnHandle]

\* a bitwise copy that leaves the source value alive (ptr::read, transmute_copy)
transmute_copy(b) == [b EXCEPT !.pc = "transmuted", !.bridgeOwned = b.bridgeOwned + 1]

\* mem::transmute moves the C array: the source value is not dropped
transmute(b) == [b EXCEPT !.pc = "transmuted"]

\* the locals of the conversion go out of scope: each live C array runs the
\* release callback, the by-value handle is dropped
scope_end(b) ==
    [b EXCEPT !.pc = "returned",
              !.released = b.released + b.bridgeOwned,
              !.releasedBy = b.releasedBy \o [i \in 1..b.bridgeOwned |-> "bridge"],
              !.bridgeOwned = 0,
              !.fnHandle = 0]

\* an import that forgets the C array it rejects
import_array_forgetting(b) ==
    IF ImportRejects(b.array, b.target)
    THEN [b EXCEPT !.bridgeOwned = b.bridgeOwned - 1,
                   !.rejected = TRUE,
                   !.ret = IF Unwraps(b.fn) THEN "panic" ELSE "err"]
    ELSE [b EXCEPT !.bridgeOwned = b.bridgeOwned - 1,
                   !.destOwned = 1,
                   !.ret = "ok"]

\* polars_arrow::ffi::import_array_from_c and arrow::ffi::from_ffi_and_data_type
\* take the C array by value: the imported array owns it, and a rejected one is
\* dropped by the import, which runs the release callback.
import_array(b) ==
    IF ImportRejects(b.array, b.target)
    THEN [b EXCEPT !.bridgeOwned = b.bridgeOwned - 1,
                   !.released = b.released + 1,
                   !.releasedBy = Append(b.releasedBy, "import"),
                   !.rejected = TRUE,
                   !.ret = IF Unwraps(b.fn) THEN "panic" ELSE "err"]
    ELSE [b EXCEPT !.bridgeOwned = b.bridgeOwned - 1,
                   !.destOwned = 1,
                   !.ret = "ok"]

\* references to the source array's buffers: the handles and, until it is
\* released, the exported C array
BufRefs(b) ==
    b.callerHandles + b.fnHandle + (IF b.pc # "entered" /\ b.released = 0 THEN 1 ELSE 0)

InitBridge ==
    \E fn \in BridgeFns, a \in SupportedTypes, t \in SupportedTypes, h \in 1..MaxHandles :
        /\ TakesBox(fn) => h = 1
        /\ br = [fn |-> fn, pc |-> "entered", array |-> a, target |-> t,
                 handles0 |-> h,
                 callerHandles |-> IF PassedByValue(fn) THEN h - 1 ELSE h,
                 fnHandle |-> IF PassedByValue(fn) THEN 1 ELSE 0,
                 bridgeOwned |-> 0, destOwned |-> 0,
                 released |-> 0, releasedBy |-> <<>>,
                 rejected |-> FALSE, ret |-> "none"]

BridgeExport ==
    /\ br.pc = "entered"
    /\ br' = export_array(br)
    /\ UNCHANGED <<accVars, readerVars, convVars>>

BridgeTransmute ==
    /\ br.pc = "exported"
    /\ br' = transmute(br)
    /\ UNCHANGED <<accVars, readerVars, convVars>>

\* the import and the end of the conversion
BridgeImport ==
    /\ br.pc = "transmuted"
    /\ br' = scope_end(import_array(br))
    /\ UNCHANGED <<accVars, readerVars, convVars>>

\* the imported array is dropped: its C array runs the release callback
BridgeDropDest ==
    /\ br.pc = "returned"
    /\ br.destOwned > 0
    /\ br' = [br EXCEPT !.destOwned = 0,
                        !.released = br.released + br.destOwned,
                        !.releasedBy = Append(br.releasedBy, "dest")]
    /\ UNCHANGED <<accVars, readerVars, convVars>>

\* the caller drops a handle it kept
BridgeDropCaller ==
    /\ br.pc = "returned"
    /\ br.callerHandles > 0
    /\ br' = [br EXCEPT !.callerHandles = br.callerHandles - 1]
    /\ UNCHANGED <<accVars, readerVars, convVars>>

NextBridge ==
    \/ BridgeExport
    \/ BridgeTransmute
    \/ BridgeImport
    \/ BridgeDropDest
    \/ BridgeDropCaller

-----------------------------------------------------------------------------
(* polars_arrow_convertors.rs: the field and batch conversions, applied to *)
(* inputs drawn from bounded sets.  cin is a field, or a batch with the    *)
(* Polars schema to convert it under; cout is the conversion applied and   *)
(* its result.                                                             *)

\* convert_polars_arrow_field_to_arrow_rs_field: the type through the C
\* schema, the name of the field, IS_ARRAY_NULLABLE
convert_polars_arrow_field_to_arrow_rs_field(polars_arrow_field) ==
    LET polars_c_schema == export_field_to_c(polars_arrow_field)
        arrow_rs_dtype == import_format(polars_c_schema.format)
    IN  IF arrow_rs_dtype.kind = "err"
        THEN [kind |-> "err", field |-> [name |-> "", type |-> "", nullable |-> FALSE]]
        ELSE [kind |-> "ok",
              field |-> [name |-> polars_arrow_field.name,
                         type |-> arrow_rs_dtype.type,
                         nullable |-> IS_ARRAY_NULLABLE]]

\* convert_arrow_rs_field_to_polars_arrow_field: the C schema of the field's
\* type, imported as a field
convert_arrow_rs_field_to_polars_arrow_field(arrow_rs_field) ==
    LET arrow_c_schema == FFI_ArrowSchema_try_from(arrow_rs_field.type)
        t == import_format(arrow_c_schema.format)
    IN  IF arrow_c_schema.kind = "err" \/ t.kind = "err"
        THEN [kind |-> "err", field |-> [name |-> "", type |-> "", nullable |-> FALSE]]
        ELSE [kind |-> "ok",
              field |-> [name |-> arrow_c_schema.name,
                         type |-> t.type,
                         nullable |-> arrow_c_schema.nullable]]

\* convert_arrow_rs_array_to_polars_arrow_array on the struct array of a batch:
\* polars-arrow imports one child per field of the struct type asked for; a
\* field without a child or a child the field's type rejects is an error,
\* returned by `?`; children beyond the fields are not looked at
import_struct(children, polars_arrow_fields) ==
    IF \/ Len(polars_arrow_fields) > Len(children)
       \/ \E i \in 1..Len(polars_arrow_fields) :
              ImportRejects(children[i].type, polars_arrow_fields[i].type)
    THEN [kind |-> "err", values |-> <<>>]
    ELSE [kind |-> "ok",
          values |-> [i \in 1..Len(polars_arrow_fields) |->
                         [type |-> polars_arrow_fields[i].type,
                          values |-> ImportedValues(children[i].values, children[i].type,
                                                    polars_arrow_fields[i].type)]]]

\* convert_arrow_rb_to_polars_df: the batch as one struct array, imported
\* under the struct type of the Polars schema; the children zipped with the
\* schema's names.  nconv counts the array conversions attempted.
convert_arrow_rb_to_polars_df(arrow_rb, polars_schema) ==
    LET polars_arrow_fields ==
            [i \in 1..Len(polars_schema) |->
                [name |-> polars_schema[i].name,
                 type |-> to_arrow(polars_schema[i].dtype, POLARS_ARROW_FLAVOR),
                 nullable |-> IS_ARRAY_NULLABLE]]
        polars_struct_array == import_struct(arrow_rb.columns, polars_arrow_fields)
        n == IF Len(polars_struct_array.values) < Len(polars_schema)
             THEN Len(polars_struct_array.values) ELSE Len(polars_schema)
    IN  IF polars_struct_array.kind = "err"
        THEN [kind |-> "err", err |-> "ComputeError", nconv |-> 1, df |-> <<>>]
        ELSE [kind |-> "ok", err |-> "", nconv |-> 1,
              df |-> [i \in 1..n |->
                         Series_from_arrow(polars_schema[i].name, polars_struct_array.values[i])]]

\* the Polars schemas a batch is converted under: of one field at least
PolarsSchemas ==
    {[i \in 1..Len(ts) |-> [name |-> NameOf(i), dtype |-> ts[i]]] :
        ts \in SeqsUpTo(PolarsDTypes, MaxCols) \ {<<>>}}

ArrowSchemas ==
    {[i \in 1..Len(ts) |-> [name |-> NameOf(i), type |-> ts[i]]] : ts \in SeqsUpTo(SupportedTypes, MaxCols)}

FieldInputs ==
    [kind : {"field"}, field : [name : {"a", "b"}, type : ArrowTypes, nullable : BOOLEAN]]

BatchInputs ==
    {[kind |-> "batch", batch |-> MakeBatch(s, "conform", n, 1), polars_schema |-> ps] :
        s \in ArrowSchemas, n \in 0..MaxRows, ps \in PolarsSchemas}

NoOutput == [op |-> "none"]

InitConv ==
    /\ cin \in FieldInputs \cup BatchInputs
    /\ cout = NoOutput

ConvFieldToArrowRs ==
    /\ cout.op = "none"
    /\ cin.kind = "field"
    /\ cout' = [op |-> "convert_polars_arrow_field_to_arrow_rs_field",
                res |-> convert_polars_arrow_field_to_arrow_rs_field(cin.field)]
    /\ UNCHANGED cin
    /\ UNCHANGED <<accVars, readerVars, bridgeVars>>

ConvFieldToPolarsArrow ==
    /\ cout.op = "none"
    /\ cin.kind = "field"
    /\ cout' = [op |-> "convert_arrow_rs_field_to_polars_arrow_field",
                res |-> convert_arrow_rs_field_to_polars_arrow_field(cin.field)]
    /\ UNCHANGED cin
    /\ UNCHANGED <<accVars, readerVars, bridgeVars>>

ConvArrowRbToPolarsDf ==
    /\ cout.op = "none"
    /\ cin.kind = "batch"
    /\ cout' = [op |-> "convert_arrow_rb_to_polars_df",
                res |-> convert_arrow_rb_to_polars_df(cin.batch, cin.polars_schema)]
    /\ UNCHANGED cin
    /\ UNCHANGED <<accVars, readerVars, bridgeVars>>

ConvRecordBatchToPolarsDf ==
    /\ cout.op = "none"
    /\ cin.kind = "batch"
    /\ cout' = [op |-> "convert_record_batch_to_polars_df",
                res |-> convert_record_batch_to_polars_df(cin.batch, cin.polars_schema)]
    /\ UNCHANGED cin
    /\ UNCHANGED <<accVars, readerVars, bridgeVars>>

NextConv ==
    \/ ConvFieldToArrowRs
    \/ ConvFieldToPolarsArrow
    \/ ConvArrowRbToPolarsDf
    \/ ConvRecordBatchToPolarsDf

-----------------------------------------------------------------------------
(* The specifications.  Each machine runs with the others idle.            *)

IdleAcc ==
    /\ schemaA = <<>>
    /\ produced = <<>>
    /\ acc_df = <<>>
    /\ apc = "off"
    /\ result = NoResult

IdleReader ==
    /\ df = <<>>
    /\ reader = [state |-> "off", chunks |-> <<>>, arrow_schema |-> <<>>]
    /\ rets = <<>>

IdleBridge == br = [pc |-> "off"]

IdleConv ==
    /\ cin = [kind |-> "off"]
    /\ cout = [op |-> "off"]

Init == InitAcc /\ IdleReader /\ IdleBridge /\ IdleConv
Next == NextAcc
Spec == Init /\ [][Next]_vars

InitR == IdleAcc /\ InitReader /\ IdleBridge /\ IdleConv
SpecReader == InitR /\ [][NextReader]_vars

InitB == IdleAcc /\ IdleReader /\ InitBridge /\ IdleConv
SpecBridge == InitB /\ [][NextBridge]_vars

InitC == IdleAcc /\ IdleReader /\ IdleBridge /\ InitConv
SpecConv == InitC /\ [][NextConv]_vars

-----------------------------------------------------------------------------
(* Properties of into_polars (Spec)                                        *)

IsBatch(item) == item.kind = "batch"

AllNonEmptyBatches ==
    \A i \in 1..Len(produced) : IsBatch(produced[i]) /\ produced[i].num_rows >= 1

TotalRows == SumSeq([i \in 1..Len(produced) |-> produced[i].num_rows])

Returned == apc = "done" /\ result.kind = "ok"

\* the batch's columns have the types of the stream's schema
TypesConform(batch) ==
    /\ Len(batch.columns) = Len(schemaA)
    /\ \A c \in 1..Len(schemaA) : batch.columns[c].type = schemaA[c].type

\* C1, as amended: for a schema of at least one column and n >= 1 batches of at
\* least one row each, the frame into_polars returns has the height of the
\* batches' rows together and n chunks, and in every column chunk k is batch k:
\* its rows in number and, for a batch of the schema's column types, its values
\* in their order.
C1_RowsInOrder ==
    (Returned /\ Len(produced) >= 1 /\ AllNonEmptyBatches /\ Len(schemaA) >= 1) =>
        /\ Height(result.df) = TotalRows
        /\ NChunks(result.df) = Len(produced)
        /\ Len(result.df) = Len(schemaA)
        /\ \A c \in 1..Len(result.df) :
              /\ Len(result.df[c].chunks) = Len(produced)
              /\ \A k \in 1..Len(produced) :
                    /\ Len(result.df[c].chunks[k]) = produced[k].num_rows
                    /\ TypesConform(produced[k]) =>
                          result.df[c].chunks[k] = produced[k].columns[c].values

C1_Witness ==
    /\ Returned
    /\ Len(produced) = 3
    /\ AllNonEmptyBatches
    /\ Len(schemaA) = 2
    /\ Height(result.df) = 5

\* C1 as stated, for every schema: the returned frame has the height of the
\* batches' rows together and as many chunks as batches.
C1_Original ==
    (Returned /\ Len(produced) >= 1 /\ AllNonEmptyBatches) =>
        /\ Height(result.df) = TotalRows
        /\ NChunks(result.df) = Len(produced)

\* the batches appended to the frame so far
Accumulated ==
    IF apc = "done" /\ result.kind # "ok"
    THEN SubSeq(produced, 1, Len(produced) - 1)
    ELSE produced

\* C2 as stated: every batch the stream yields and into_polars appends has the
\* schema that schema() returns.
C2_Original ==
    \A i \in 1..Len(Accumulated) :
        IsBatch(Accumulated[i]) => Accumulated[i].fields = schema(schemaA)

\* C3 as stated: once a batch or an error has come, into_polars ends with the
\* whole frame or with the originating error, never otherwise; every column of
\* a frame returned has the rows of all the batches produced.
C3_Original ==
    (apc = "done" /\ produced # <<>>) =>
        /\ result.kind \in {"ok", "err"}
        /\ result.kind = "ok" =>
              \A c \in 1..Len(result.df) : SeriesLen(result.df[c]) = TotalRows

\* C8 as stated: every conversion failure is an error result returned to the
\* caller; no run of into_polars ends in a panic.
C8_Original == apc = "done" => result.kind \in {"ok", "err"}

\* into_polars is suspended in its loop, awaiting the stream's next item
Suspended == apc = "pull"

\* the frame has the schema's columns, in the schema's order
HasSchemaColumns(f) ==
    /\ Len(f) = Len(schemaA)
    /\ \A c \in 1..Len(f) :
          /\ f[c].name = schemaA[c].name
          /\ f[c].dtype = DataTypeFromArrow(schemaA[c].type)

\* all the columns of the frame have the same height
EqualHeights(f) ==
    \A c, d \in 1..Len(f) : SeriesLen(f[c]) = SeriesLen(f[d])

\* C11, as amended: into_polars is only ever before its start, awaiting the
\* stream's next item, or ended; it first awaits with the empty frame built
\* from the schema; whenever it awaits, the accumulated frame has the schema's
\* columns in the schema's order, all of equal height, and, for a schema of at
\* least one column, the height is the number of rows of exactly the batches
\* pulled so far; at the end of the stream that frame is what is returned.
C11_ValidPartialFrame ==
    /\ apc \in {"init", "pull", "done"}
    /\ (Suspended /\ produced = <<>>) => acc_df = DataFrameFromSchema(PolarsSchema)
    /\ Suspended =>
          /\ \A i \in 1..Len(produced) : IsBatch(produced[i])
          /\ HasSchemaColumns(acc_df)
          /\ EqualHeights(acc_df)
          /\ Len(schemaA) >= 1 => Height(acc_df) = TotalRows
    /\ Returned =>
          /\ result.df = acc_df
          /\ HasSchemaColumns(result.df)
          /\ EqualHeights(result.df)
          /\ Len(schemaA) >= 1 => Height(result.df) = TotalRows

\* into_polars awaits the third item of a stream of two columns, two batches
\* of two rows and one row appended
C11_Witness ==
    /\ Suspended
    /\ Len(schemaA) = 2
    /\ Len(produced) = 2
    /\ produced[1].num_rows = 2
    /\ produced[2].num_rows = 1
    /\ Height(acc_df) = 3
    /\ SeriesLen(acc_df[2]) = 3

\* C11 as stated, for every schema: whenever into_polars awaits the stream's
\* next item, the accumulated frame has the schema's columns in the schema's
\* order, all of equal height, and its height is the number of rows of the
\* batches pulled so far.
C11_Original ==
    Suspended =>
        /\ HasSchemaColumns(acc_df)
        /\ EqualHeights(acc_df)
        /\ Height(acc_df) = TotalRows

-----------------------------------------------------------------------------
(* Properties of the array conversions (SpecBridge)                        *)

Exported == br.pc \in {"exported", "transmuted", "returned"}

Owners == br.bridgeOwned + br.destOwned

\* C4: the release callback of an exported C array is never run twice; until it
\* has run exactly one value owns the C array, afterwards none; once the
\* conversion has returned and every owner is gone it has run exactly once;
\* and no drop in the scope of the conversion itself runs it.
C4_ReleasedExactlyOnce ==
    /\ br.released <= 1
    /\ (Exported /\ br.released = 0) => Owners = 1
    /\ br.released >= 1 => Owners = 0
    /\ (br.pc = "returned" /\ Owners = 0) => br.released = 1
    /\ \A i \in 1..Len(br.releasedBy) : br.releasedBy[i] # "bridge"

C4_Witness ==
    /\ br.pc = "returned"
    /\ br.rejected
    /\ br.released = 1
    /\ br.releasedBy = <<"import">>

Failed == br.pc = "returned" /\ br.rejected /\ ~Unwraps(br.fn)

\* C5, as amended: when the import is rejected, the conversion returns an error
\* and the release callback has run exactly once, in the failed import; the
\* handle passed by value is gone, the caller holds at most the handles it kept
\* besides it, and the source's buffers are referenced by those handles alone.
C5_FailureReleasesOnce ==
    Failed =>
        /\ br.ret = "err"
        /\ br.released = 1
        /\ br.releasedBy = <<"import">>
        /\ Owners = 0
        /\ br.fnHandle = 0
        /\ br.callerHandles <= br.handles0 - 1
        /\ BufRefs(br) = br.callerHandles

C5_Witness ==
    /\ Failed
    /\ br.fn = "convert_polars_arrow_array_to_arrow_rs_array"
    /\ br.ret = "err"
    /\ br.callerHandles = 0

\* the caller has dropped none of its handles since the call
NoDropYet == br.callerHandles = br.handles0 - (IF PassedByValue(br.fn) THEN 1 ELSE 0)

\* C5 as stated: when the import is rejected, the conversion returns an error
\* and, right after the failed call, the caller still holds the source array
\* to release it.
C5_Original ==
    (Failed /\ NoDropYet) =>
        /\ br.ret = "err"
        /\ br.callerHandles >= 1

-----------------------------------------------------------------------------
(* Properties of the reader (SpecReader)                                   *)

\* C9: with k the number of chunks of the aligned frame, the i-th call of next
\* returns, for i <= k, a batch of the i-th chunk's arrays and row count, and
\* for i > k None; the reader holds the chunks not yet returned.
C9_OneBatchPerChunkThenNone ==
    reader.state = "ready" =>
        LET aligned == align_chunks(df)
            k == NChunks(aligned)
        IN  /\ \A i \in 1..Len(rets) :
                  IF i <= k
                  THEN /\ rets[i].kind = "batch"
                       /\ rets[i].num_rows = Len(aligned[1].chunks[i])
                       /\ \A c \in 1..Len(aligned) :
                             rets[i].columns[c].values = aligned[c].chunks[i]
                  ELSE rets[i].kind = "None"
            /\ Len(reader.chunks) = IF Len(rets) < k THEN k - Len(rets) ELSE 0

C9_Witness ==
    /\ reader.state = "ready"
    /\ NChunks(align_chunks(df)) = 2
    /\ Len(rets) = 4
    /\ rets[1].kind = "batch" /\ rets[1].num_rows = 1
    /\ rets[2].kind = "batch" /\ rets[2].num_rows = 2
    /\ rets[3].kind = "None"
    /\ rets[4].kind = "None"

-----------------------------------------------------------------------------
(* Properties of the field and batch conversions (SpecConv)                *)

FieldConverted ==
    /\ cout.op \in {"convert_polars_arrow_field_to_arrow_rs_field",
                    "convert_arrow_rs_field_to_polars_arrow_field"}
    /\ cout.res.kind = "ok"

\* C6 as stated: a converted field has the name and the nullable flag of the
\* field it was converted from.
C6_Original ==
    FieldConverted =>
        /\ cout.res.field.name = cin.field.name
        /\ cout.res.field.nullable = cin.field.nullable

BatchConverted ==
    cout.op \in {"convert_arrow_rb_to_polars_df", "convert_record_batch_to_polars_df"}

CountsDiffer == Len(cin.batch.columns) # Len(cin.polars_schema)

\* C7 as stated: a batch whose number of columns differs from the schema's
\* number of fields is answered with an error, never with a frame.
C7_Original == (BatchConverted /\ CountsDiffer) => cout.res.kind = "err"

\* C10 as stated: when the error for a batch whose number of columns differs
\* from the schema's number of fields is raised, no array conversion has been
\* attempted for the batch.
C10_Original ==
    (BatchConverted /\ CountsDiffer /\ cout.res.kind = "err") => cout.res.nconv = 0
====
